---- MODULE Spec2Model ----
(***************************************************************************)
(* cryptohound: the risk-scoring engine, basic_risk_scoring, of            *)
(* src/cryptohound/analysis/risk_scoring.py.                               *)
(*                                                                         *)
(* Python strings are sequences of one-character strings, so that strip,   *)
(* lower, int and the substring test are computed rather than assumed.     *)
(* Python ints that may exceed the model checker's integers (transaction   *)
(* values in wei) are sign-and-magnitude digit sequences.                  *)
(***************************************************************************)
EXTENDS Integers, Sequences, FiniteSets, TLC

(***************************************************************************)
(* Python values and built-ins used by the engine                          *)
(***************************************************************************)
PyNone == [t |-> "none"]
PyStr(s) == [t |-> "str", s |-> s]
PyNum(n) == [t |-> "num", n |-> n]

Whitespace == {" ", "\t", "\n"}

RECURSIVE LStrip(_)
LStrip(s) ==
    IF s # <<>> /\ Head(s) \in Whitespace THEN LStrip(Tail(s)) ELSE s

RECURSIVE RStrip(_)
RStrip(s) ==
    IF s # <<>> /\ s[Len(s)] \in Whitespace
    THEN RStrip(SubSeq(s, 1, Len(s) - 1))
    ELSE s

\* str.strip()
Strip(s) == RStrip(LStrip(s))

UpperCase ==
    <<"A", "B", "C", "D", "E", "F", "G", "H", "I", "J", "K", "L", "M",
      "N", "O", "P", "Q", "R", "S", "T", "U", "V", "W", "X", "Y", "Z">>

LowerCase ==
    <<"a", "b", "c", "d", "e", "f", "g", "h", "i", "j", "k", "l", "m",
      "n", "o", "p", "q", "r", "s", "t", "u", "v", "w", "x", "y", "z">>

LowerChar(c) ==
    IF \E i \in 1..Len(UpperCase) : UpperCase[i] = c
    THEN LowerCase[CHOOSE i \in 1..Len(UpperCase) : UpperCase[i] = c]
    ELSE c

\* str.lower()
Lower(s) == [i \in 1..Len(s) |-> LowerChar(s[i])]

\* sub in s
Contains(sub, s) ==
    \E i \in 0..(Len(s) - Len(sub)) : SubSeq(s, i + 1, i + Len(sub)) = sub

\* str(x): a string is itself, None is "None"
Str(x) ==
    CASE x.t = "str" -> x.s
      [] x.t = "none" -> <<"N", "o", "n", "e">>

\* x or "" for a string-or-None x
OrEmpty(x) == IF x.t = "str" /\ x.s # <<>> THEN x.s ELSE <<>>

\* dict.get(k, default) / getattr(obj, k, default)
Get(d, k, default) == IF k \in DOMAIN d THEN d[k] ELSE default

DigitChars == <<"0", "1", "2", "3", "4", "5", "6", "7", "8", "9">>

IsDigit(c) == \E i \in 1..Len(DigitChars) : DigitChars[i] = c

DigitVal(c) == (CHOOSE i \in 1..Len(DigitChars) : DigitChars[i] = c) - 1

RECURSIVE StripZeros(_)
StripZeros(m) ==
    IF m # <<>> /\ Head(m) = 0 THEN StripZeros(Tail(m)) ELSE m

\* A Python int: sign and magnitude, the magnitude a digit sequence, most
\* significant first, without leading zeros (zero is the empty sequence).
MkInt(neg, mag) ==
    [neg |-> neg /\ StripZeros(mag) # <<>>, mag |-> StripZeros(mag)]

RECURSIVE NatDigits(_)
NatDigits(n) == IF n = 0 THEN <<>> ELSE Append(NatDigits(n \div 10), n % 10)

IntOf(n) == IF n < 0 THEN MkInt(TRUE, NatDigits(-n)) ELSE MkInt(FALSE, NatDigits(n))

\* 10**n
Pow10(n) == MkInt(FALSE, <<1>> \o [i \in 1..n |-> 0])

RECURSIVE MagCmp(_, _)
\* -1, 0 or 1 as magnitude a is below, equal to or above magnitude b
MagCmp(a, b) ==
    IF Len(a) # Len(b) THEN (IF Len(a) < Len(b) THEN -1 ELSE 1)
    ELSE IF a = <<>> THEN 0
    ELSE IF Head(a) # Head(b) THEN (IF Head(a) < Head(b) THEN -1 ELSE 1)
    ELSE MagCmp(Tail(a), Tail(b))

\* a <= b on Python ints
IntLE(a, b) ==
    IF a.neg /\ ~b.neg THEN TRUE
    ELSE IF ~a.neg /\ b.neg THEN FALSE
    ELSE IF a.neg THEN MagCmp(a.mag, b.mag) >= 0
    ELSE MagCmp(a.mag, b.mag) <= 0

\* a >= b on Python ints
IntGE(a, b) == IntLE(b, a)

RECURSIVE MagNat(_)
MagNat(m) == IF m = <<>> THEN 0 ELSE MagNat(SubSeq(m, 1, Len(m) - 1)) * 10 + m[Len(m)]

\* The model checker's integer of a Python int small enough to have one.
ToInt(a) == IF a.neg THEN 0 - MagNat(a.mag) ELSE MagNat(a.mag)

\* int(s) with a failed parse read as 0 instead of raising ValueError
ParseIntZeroOnError(s) ==
    LET t == Strip(s)
        signed == t # <<>> /\ Head(t) \in {"+", "-"}
        body == IF signed THEN Tail(t) ELSE t
        wellFormed ==
            /\ body # <<>>
            /\ \A i \in 1..Len(body) : IsDigit(body[i])
        mag == [i \in 1..Len(body) |-> DigitVal(body[i])]
    IN  IF wellFormed
        THEN [ok |-> TRUE, exc |-> "", val |-> MkInt(signed /\ Head(t) = "-", mag)]
        ELSE [ok |-> TRUE, exc |-> "", val |-> MkInt(FALSE, <<>>)]

\* int(s) for a string s: surrounding whitespace, an optional sign, then
\* digits, single underscores allowed between digits. ok = FALSE is ValueError.
ParseInt(s) ==
    LET t == Strip(s)
        signed == t # <<>> /\ Head(t) \in {"+", "-"}
        body == IF signed THEN Tail(t) ELSE t
        wellFormed ==
            /\ body # <<>>
            /\ \A i \in 1..Len(body) : IsDigit(body[i]) \/ body[i] = "_"
            /\ body[1] # "_"
            /\ body[Len(body)] # "_"
            /\ \A i \in 1..(Len(body) - 1) : ~(body[i] = "_" /\ body[i + 1] = "_")
        digits == SelectSeq(body, IsDigit)
        mag == [i \in 1..Len(digits) |-> DigitVal(digits[i])]
    IN  IF wellFormed
        THEN [ok |-> TRUE, exc |-> "", val |-> MkInt(signed /\ Head(t) = "-", mag)]
        ELSE [ok |-> FALSE, exc |-> "ValueError", val |-> MkInt(FALSE, <<>>)]

\* int(x): TypeError for None, ValueError for a string that is no integer
PyInt(x) ==
    CASE x.t = "str" -> ParseInt(x.s)
      [] x.t = "num" -> [ok |-> TRUE, exc |-> "", val |-> IntOf(x.n)]
      [] x.t = "none" -> [ok |-> FALSE, exc |-> "TypeError", val |-> MkInt(FALSE, <<>>)]

RECURSIVE Insert(_, _)
Insert(x, s) ==
    IF s = <<>> THEN <<x>>
    ELSE IF x <= Head(s) THEN <<x>> \o s
    ELSE <<Head(s)>> \o Insert(x, Tail(s))

RECURSIVE Sorted(_)
\* list.sort() on a list of ints
Sorted(s) == IF s = <<>> THEN <<>> ELSE Insert(Head(s), Sorted(Tail(s)))

(***************************************************************************)
(* basic_risk_scoring(profile, txs)                                        *)
(*                                                                         *)
(* profile and each transaction are functions from the names they carry    *)
(* to Python values: a name outside the domain is an absent attribute or   *)
(* key.  pc is the section of the function about to run; "raised" is an    *)
(* exception that left the function, "done" is a returned RiskScore        *)
(* (score, flags).  A RiskFlag is modelled by its code and weight; its     *)
(* description is display text built from the same counts.                 *)
(***************************************************************************)
VARIABLES profile, txs, pc, addr, chain, flags, total_weight,
          incoming, outgoing, unique_senders, unique_receivers, tx_count,
          small_incoming, big_incoming, timestamps, self_like, tags, score

\* EthereumClient.get_recent_transactions(address, limit): eth_pc is the
\* step about to run, reply the provider's answer to the last request,
\* requests the actions requested so far, eth_txs the list returned and
\* eth_exc the exception that left the call.
VARIABLES address, limit, eth_pc, reply, requests, eth_txs, eth_exc

ethVars == <<address, limit, eth_pc, reply, requests, eth_txs, eth_exc>>

\* A caller of basic_risk_scoring that scores the same records again in
\* another order: calls counts its earlier calls (at most one is told
\* apart), last_score and last_codes are what the latest of them returned.
VARIABLES calls, last_score, last_codes

callerVars == <<calls, last_score, last_codes>>

vars == <<profile, txs, pc, addr, chain, flags, total_weight,
          incoming, outgoing, unique_senders, unique_receivers, tx_count,
          small_incoming, big_incoming, timestamps, self_like, tags, score,
          ethVars, callerVars>>

RiskFlag(code, weight) == [code |-> code, weight |-> weight]

\* add_flag that stops recording flags once the total would pass 100
add_flag_capped(acc, code, weight) ==
    [flags |-> IF acc.total_weight + weight > 100 THEN acc.flags
               ELSE Append(acc.flags, RiskFlag(code, weight)),
     total_weight |-> acc.total_weight + weight]

\* add_flag, on the pair (flags, total_weight) it updates
add_flag(acc, code, weight) ==
    [flags |-> Append(acc.flags, RiskFlag(code, weight)),
     total_weight |-> acc.total_weight + weight]

RECURSIVE add_flags(_, _)
\* add_flag for each flag of fs, in order
add_flags(acc, fs) ==
    IF fs = <<>> THEN acc
    ELSE add_flags(add_flag(acc, Head(fs).code, Head(fs).weight), Tail(fs))

Acc == [flags |-> flags, total_weight |-> total_weight]

Commit(acc) == flags' = acc.flags /\ total_weight' = acc.total_weight

EmptyStr == PyStr(<<>>)

TxFrom(tx) == Strip(Str(Get(tx, "from", EmptyStr)))

TxTo(tx) == Strip(Str(Get(tx, "to", EmptyStr)))

RECURSIVE ActivityLoopElif(_, _, _)
\* The loop with the incoming branch as an elif of the outgoing one
ActivityLoopElif(a, list, st) ==
    IF list = <<>> THEN st
    ELSE LET tx == Head(list)
             frm == TxFrom(tx)
             to == TxTo(tx)
             st1 == IF a # <<>> /\ frm = a
                    THEN [st EXCEPT !.outgoing = @ + 1,
                                    !.unique_receivers =
                                        IF to # <<>> THEN @ \cup {to} ELSE @]
                    ELSE IF a # <<>> /\ to = a
                    THEN [st EXCEPT !.incoming = @ + 1,
                                    !.unique_senders =
                                        IF frm # <<>> THEN @ \cup {frm} ELSE @]
                    ELSE st
         IN  ActivityLoopElif(a, Tail(list), st1)

RECURSIVE ActivityLoop(_, _, _)
\* for tx in txs: incoming / outgoing counts and the unique peer sets
ActivityLoop(a, list, st) ==
    IF list = <<>> THEN st
    ELSE LET tx == Head(list)
             frm == TxFrom(tx)
             to == TxTo(tx)
             st1 == IF a # <<>> /\ frm = a
                    THEN [st EXCEPT !.outgoing = @ + 1,
                                    !.unique_receivers =
                                        IF to # <<>> THEN @ \cup {to} ELSE @]
                    ELSE st
             st2 == IF a # <<>> /\ to = a
                    THEN [st1 EXCEPT !.incoming = @ + 1,
                                     !.unique_senders =
                                        IF frm # <<>> THEN @ \cup {frm} ELSE @]
                    ELSE st1
         IN  ActivityLoop(a, Tail(list), st2)

\* addr, chain and the basic activity stats
ActivityStats ==
    /\ pc = "stats"
    /\ LET a == Strip(OrEmpty(profile["address"]))
           st == ActivityLoop(a, txs,
                     [incoming |-> 0, outgoing |-> 0,
                      unique_senders |-> {}, unique_receivers |-> {}])
       IN  /\ addr' = a
           /\ chain' = Strip(Lower(OrEmpty(profile["chain"])))
           /\ incoming' = st.incoming
           /\ outgoing' = st.outgoing
           /\ unique_senders' = st.unique_senders
           /\ unique_receivers' = st.unique_receivers
    /\ pc' = "funnel"
    /\ UNCHANGED <<callerVars, ethVars, profile, txs, flags, total_weight, tx_count, small_incoming,
                   big_incoming, timestamps, self_like, tags, score>>

\* Heuristics 1 and 2: incoming-only funnel, outgoing-only relay.  The
\* balance is read only when the first two conjuncts hold; None > 0 raises.
FunnelRelay ==
    /\ pc = "funnel"
    /\ LET balance == Get(profile, "balance", PyNum(0))
           reads == incoming > 0 /\ outgoing = 0
           acc1 == IF reads /\ balance.t = "num" /\ balance.n > 0
                   THEN add_flag(Acc, "INCOMING_ONLY", 25)
                   ELSE Acc
           acc2 == IF outgoing > 0 /\ incoming = 0
                   THEN add_flag(acc1, "OUTGOING_ONLY", 20)
                   ELSE acc1
       IN  IF reads /\ balance.t # "num"
           THEN pc' = "raised" /\ UNCHANGED <<flags, total_weight>>
           ELSE pc' = "volume" /\ Commit(acc2)
    /\ UNCHANGED <<callerVars, ethVars, profile, txs, addr, chain, incoming, outgoing, unique_senders,
                   unique_receivers, tx_count, small_incoming, big_incoming,
                   timestamps, self_like, tags, score>>

\* The list's length whatever the profile says
EffectiveTxCountLen(p, list) == PyNum(Len(list))

\* getattr(profile, "tx_count", len(txs) or 0)
EffectiveTxCount(p, list) == Get(p, "tx_count", PyNum(Len(list)))

\* The elevated tier with its comparison turned round
VolumeTierFlipped(c) ==
    IF c >= 100 THEN <<RiskFlag("HIGH_VOLUME", 15)>>
    ELSE IF c <= 30 THEN <<RiskFlag("ELEVATED_VOLUME", 8)>>
    ELSE <<>>

\* if tx_count >= 100: HIGH_VOLUME  elif tx_count >= 30: ELEVATED_VOLUME
VolumeTier(c) ==
    IF c >= 100 THEN <<RiskFlag("HIGH_VOLUME", 15)>>
    ELSE IF c >= 30 THEN <<RiskFlag("ELEVATED_VOLUME", 8)>>
    ELSE <<>>

\* Heuristic 3: volume tiers
Volume ==
    /\ pc = "volume"
    /\ LET c == EffectiveTxCount(profile, txs)
       IN  IF c.t # "num"
           THEN /\ pc' = "raised"
                /\ UNCHANGED <<flags, total_weight, tx_count>>
           ELSE /\ pc' = "peers"
                /\ tx_count' = c.n
                /\ Commit(add_flags(Acc, VolumeTier(c.n)))
    /\ UNCHANGED <<callerVars, ethVars, profile, txs, addr, chain, incoming, outgoing, unique_senders,
                   unique_receivers, small_incoming, big_incoming,
                   timestamps, self_like, tags, score>>

\* Heuristic 4: fan-in and fan-out tiers
Peers ==
    /\ pc = "peers"
    /\ LET ns == Cardinality(unique_senders)
           nr == Cardinality(unique_receivers)
           acc1 == IF ns >= 20 THEN add_flag(Acc, "MANY_SENDERS", 15)
                   ELSE IF ns >= 10 THEN add_flag(Acc, "MULTIPLE_SENDERS", 8)
                   ELSE Acc
           acc2 == IF nr >= 20 THEN add_flag(acc1, "MANY_RECIPIENTS", 15)
                   ELSE IF nr >= 10 THEN add_flag(acc1, "MULTIPLE_RECIPIENTS", 8)
                   ELSE acc1
       IN  Commit(acc2)
    /\ pc' = "value"
    /\ UNCHANGED <<callerVars, ethVars, profile, txs, addr, chain, incoming, outgoing, unique_senders,
                   unique_receivers, tx_count, small_incoming, big_incoming,
                   timestamps, self_like, tags, score>>

\* 1 * 10**18, 1 ETH in wei
big_in_threshold_eth == Pow10(18)

\* 1 * 10**15, 0.001 ETH in wei
dust_threshold_eth == Pow10(15)

\* int(0.1 * 10**8): the float product is 10000000.0
big_in_threshold_btc_sats == 10000000

\* int(0.0001 * 10**8): the float product is 10000.0
dust_threshold_btc_sats == 10000

EvmChains ==
    { <<"e", "t", "h", "e", "r", "e", "u", "m">>,
      <<"e", "t", "h">>,
      <<"b", "s", "c">>,
      <<"b", "n", "b">>,
      <<"b", "i", "n", "a", "n", "c", "e", " ", "s", "m", "a", "r", "t", " ",
        "c", "h", "a", "i", "n">> }

Bitcoin == <<"b", "i", "t", "c", "o", "i", "n">>

\* The record's to passes the filter of the value loop (it is not skipped)
ValueLoopTakes(a, tx) == ~(a # <<>> /\ TxTo(tx) # a)

\* tx.get("value", "0")
RawValue(tx) == Get(tx, "value", PyStr(<<"0">>))

\* The big test with the bitcoin branch taken for every other chain
IsBigAnyChain(ch, v) ==
    IF ch \in EvmChains THEN IntGE(v, big_in_threshold_eth)
    ELSE IntGE(v, IntOf(big_in_threshold_btc_sats))

\* v_int >= the chain's big threshold, on a recognised chain
IsBig(ch, v) ==
    IF ch \in EvmChains THEN IntGE(v, big_in_threshold_eth)
    ELSE IF ch = Bitcoin THEN IntGE(v, IntOf(big_in_threshold_btc_sats))
    ELSE FALSE

\* The dust test with < for <=
IsDustStrict(ch, v) ==
    IF ch \in EvmChains THEN ~IntGE(v, dust_threshold_eth)
    ELSE IF ch = Bitcoin THEN ~IntGE(v, IntOf(dust_threshold_btc_sats))
    ELSE FALSE

\* v_int <= the chain's dust threshold, on a recognised chain
IsDust(ch, v) ==
    IF ch \in EvmChains THEN IntLE(v, dust_threshold_eth)
    ELSE IF ch = Bitcoin THEN IntLE(v, IntOf(dust_threshold_btc_sats))
    ELSE FALSE

RECURSIVE ValueLoop(_, _, _, _)
\* for tx in txs: the big and small (dust) incoming counts
ValueLoop(a, ch, list, st) ==
    IF list = <<>> THEN st
    ELSE LET tx == Head(list)
             r == PyInt(RawValue(tx))
             st1 == IF ~ValueLoopTakes(a, tx) \/ ~r.ok THEN st
                    ELSE [big_incoming |->
                              st.big_incoming + (IF IsBig(ch, r.val) THEN 1 ELSE 0),
                          small_incoming |->
                              st.small_incoming + (IF IsDust(ch, r.val) THEN 1 ELSE 0)]
         IN  ValueLoop(a, ch, Tail(list), st1)

\* Heuristic 5: value-based signals
ValueSignals ==
    /\ pc = "value"
    /\ LET st == ValueLoop(addr, chain, txs, [big_incoming |-> 0, small_incoming |-> 0])
           acc1 == IF st.big_incoming >= 1
                   THEN add_flag(Acc, "LARGE_INCOMING", 20) ELSE Acc
           acc2 == IF st.small_incoming >= 5
                   THEN add_flag(acc1, "DUSTING_PATTERN", 15) ELSE acc1
       IN  /\ big_incoming' = st.big_incoming
           /\ small_incoming' = st.small_incoming
           /\ Commit(acc2)
    /\ pc' = "burst"
    /\ UNCHANGED <<callerVars, ethVars, profile, txs, addr, chain, incoming, outgoing, unique_senders,
                   unique_receivers, tx_count, timestamps, self_like, tags, score>>

RECURSIVE CollectTimestamps(_)
\* for tx in txs: int(tx.get("timeStamp")), skipping TypeError / ValueError
CollectTimestamps(list) ==
    IF list = <<>> THEN <<>>
    ELSE LET r == PyInt(Get(Head(list), "timeStamp", PyNone))
         IN  (IF r.ok THEN <<ToInt(r.val)>> ELSE <<>>) \o CollectTimestamps(Tail(list))

\* The timestamps left in input order
SortTimestampsSkipped(ts) == ts

\* timestamps.sort()
SortTimestamps(ts) == Sorted(ts)

window == 600

RECURSIVE AdvanceLeft(_, _, _)
\* while timestamps[j] - timestamps[i] > window: i += 1   (indices from 1)
AdvanceLeft(ts, i, j) ==
    IF ts[j] - ts[i] > window THEN AdvanceLeft(ts, i + 1, j) ELSE i

RECURSIVE BurstScanNoBreak(_, _, _)
\* The scan without its break: one flag per window that holds 5
BurstScanNoBreak(ts, i, j) ==
    IF j > Len(ts) THEN <<>>
    ELSE LET i2 == AdvanceLeft(ts, i, j)
         IN  (IF j - i2 + 1 >= 5 THEN <<RiskFlag("BURST_ACTIVITY", 10)>> ELSE <<>>)
                 \o BurstScanNoBreak(ts, i2, j + 1)

RECURSIVE BurstScan(_, _, _)
\* for j in range(len(timestamps)): the flags the loop adds, one and then
\* break when the window holds 5, none when the loop runs out
BurstScan(ts, i, j) ==
    IF j > Len(ts) THEN <<>>
    ELSE LET i2 == AdvanceLeft(ts, i, j)
         IN  IF j - i2 + 1 >= 5
             THEN <<RiskFlag("BURST_ACTIVITY", 10)>>
             ELSE BurstScan(ts, i2, j + 1)

\* Heuristic 6: time-based burst
Burst ==
    /\ pc = "burst"
    /\ LET ts == SortTimestamps(CollectTimestamps(txs))
       IN  /\ timestamps' = ts
           /\ Commit(IF Len(ts) >= 5 THEN add_flags(Acc, BurstScan(ts, 1, 1)) ELSE Acc)
    /\ pc' = "self"
    /\ UNCHANGED <<callerVars, ethVars, profile, txs, addr, chain, incoming, outgoing, unique_senders,
                   unique_receivers, tx_count, small_incoming, big_incoming,
                   self_like, tags, score>>

RECURSIVE SelfLoop(_, _)
SelfLoop(a, list) ==
    IF list = <<>> THEN 0
    ELSE (IF a # <<>> /\ TxFrom(Head(list)) = a /\ TxTo(Head(list)) = a THEN 1 ELSE 0)
         + SelfLoop(a, Tail(list))

\* Heuristic 7: self-shuffling
SelfShuffling ==
    /\ pc = "self"
    /\ self_like' = SelfLoop(addr, txs)
    /\ Commit(IF self_like' >= 1 THEN add_flag(Acc, "SELF_SHUFFLING", 10) ELSE Acc)
    /\ pc' = "tags"
    /\ UNCHANGED <<callerVars, ethVars, profile, txs, addr, chain, incoming, outgoing, unique_senders,
                   unique_receivers, tx_count, small_incoming, big_incoming,
                   timestamps, tags, score>>

PyList(items) == [t |-> "list", items |-> items]

\* [str(t).lower() for t in getattr(profile, "tags", [])], [] on an exception
LoweredTags(p) ==
    LET raw == Get(p, "tags", PyList(<<>>))
    IN  IF raw.t = "list"
        THEN [i \in 1..Len(raw.items) |-> Lower(Str(raw.items[i]))]
        ELSE <<>>

Scam == <<"s", "c", "a", "m">>

Mixer == <<"m", "i", "x", "e", "r">>

Tornado == <<"t", "o", "r", "n", "a", "d", "o">>

\* Heuristic 8: tags from upstream analysis
Tags ==
    /\ pc = "tags"
    /\ tags' = LoweredTags(profile)
    /\ LET acc1 == IF \E i \in 1..Len(tags') : Contains(Scam, tags'[i])
                   THEN add_flag(Acc, "TAG_SCAM", 40) ELSE Acc
           acc2 == IF \E i \in 1..Len(tags') :
                          Contains(Mixer, tags'[i]) \/ Contains(Tornado, tags'[i])
                   THEN add_flag(acc1, "TAG_MIXER", 30) ELSE acc1
       IN  Commit(acc2)
    /\ pc' = "final"
    /\ UNCHANGED <<callerVars, ethVars, profile, txs, addr, chain, incoming, outgoing, unique_senders,
                   unique_receivers, tx_count, small_incoming, big_incoming,
                   timestamps, self_like, score>>

Min(a, b) == IF a <= b THEN a ELSE b

Max(a, b) == IF a >= b THEN a ELSE b

\* The clamp without its upper cap
ClampNoCap(w) == Max(0, w)

\* max(0, min(total_weight, 100))
Clamp(w) == Max(0, Min(w, 100))

\* Final score (cap at 100); the RiskScore returned is (score, flags)
FinalScore ==
    /\ pc = "final"
    /\ score' = Clamp(total_weight)
    /\ pc' = "done"
    /\ UNCHANGED <<callerVars, ethVars, profile, txs, addr, chain, flags, total_weight, incoming,
                   outgoing, unique_senders, unique_receivers, tx_count,
                   small_incoming, big_incoming, timestamps, self_like, tags>>

Next ==
    \/ ActivityStats
    \/ FunnelRelay
    \/ Volume
    \/ Peers
    \/ ValueSignals
    \/ Burst
    \/ SelfShuffling
    \/ Tags
    \/ FinalScore

\* The state on entry: the locals before their first assignment
Entry(p, list) ==
    /\ profile = p
    /\ txs = list
    /\ pc = "stats"
    /\ addr = <<>>
    /\ chain = <<>>
    /\ flags = <<>>
    /\ total_weight = 0
    /\ incoming = 0
    /\ outgoing = 0
    /\ unique_senders = {}
    /\ unique_receivers = {}
    /\ tx_count = 0
    /\ small_incoming = 0
    /\ big_incoming = 0
    /\ timestamps = <<>>
    /\ self_like = 0
    /\ tags = <<>>
    /\ score = 0

(***************************************************************************)
(* Inputs.  Every (profile, txs) pair below is a call a caller can make:   *)
(* profile is typed Any and txs is a list of dicts.                        *)
(***************************************************************************)
Absent == [t |-> "absent"]

\* The object or dict with the fields of rec that are not Absent
MkDict(rec) == [k \in {n \in DOMAIN rec : rec[n].t # "absent"} |-> rec[k]]

MkTx(frm, to, value, ts) ==
    MkDict([from |-> frm, to |-> to, value |-> value, timeStamp |-> ts])

MkProfile(a, ch, bal, cnt, tg) ==
    MkDict([address |-> a, chain |-> ch, balance |-> bal, tx_count |-> cnt, tags |-> tg])

SeqsUpTo(S, n) == UNION {[1..k -> S] : k \in 0..n}

A == PyStr(<<"A">>)

B == PyStr(<<"B">>)

Peer(i) == PyStr(<<"p", LowerCase[i]>>)

BitcoinChain == PyStr(<<" ", "B", "i", "t", "c", "o", "i", "n">>)

EthChain == PyStr(<<"E", "T", "H">>)

OtherChain == PyStr(<<"d", "o", "g", "e">>)

D10 == PyStr(<<"1", "0">>)

D10000 == PyStr(<<"1", "0", "0", "0", "0">>)

D10001 == PyStr(<<"1", "0", "0", "0", "1">>)

D9999999 == PyStr(<<"9", "9", "9", "9", "9", "9", "9">>)

D10000000 == PyStr(<<"1", "0", "0", "0", "0", "0", "0", "0">>)

NotANumber == PyStr(<<"a", "b", "c">>)

NoTags == PyList(<<>>)

ScamAlert == PyList(<<PyStr(<<"S", "c", "a", "m", " ", "A", "l", "e", "r", "t">>)>>)

TornadoCash == PyList(<<PyStr(<<"e", "x", "c", "h">>), PyStr(<<"T", "o", "r", "n", "a", "d", "o">>)>>)

Benign == PyList(<<PyStr(<<"E", "x", "c", "h", "a", "n", "g", "e">>)>>)

ScamMixer == PyList(<<PyStr(<<"m", "i", "x", "e", "r">>), PyStr(<<"s", "c", "a", "m">>)>>)

T0 == PyStr(<<"0">>)

T600 == PyStr(<<"6", "0", "0">>)

T601 == PyStr(<<"6", "0", "1">>)

MaxTxs == 2

MaxBurstTxs == 6

MaxDustTxs == 5

MaxPeers == 20

\* Profiles in full, scored against a few short lists
ProfileInputs ==
    LET profiles ==
            { MkProfile(a, ch, PyNum(bal), cnt, tg) :
                a \in {A, PyStr(<<" ", "A", "\t">>), PyStr(<<>>), PyStr(<<" ">>)},
                ch \in {BitcoinChain, EthChain, OtherChain},
                bal \in {0, 1},
                cnt \in {Absent, PyNum(0), PyNum(29), PyNum(30), PyNum(99),
                         PyNum(100), PyNum(150)},
                tg \in {NoTags, Benign, ScamAlert, TornadoCash, ScamMixer} }
        lists ==
            { <<>>,
              <<MkTx(B, A, D10000000, Absent)>>,
              <<MkTx(A, B, D10, Absent)>>,
              <<MkTx(A, A, D10, Absent), MkTx(Absent, PyStr(<<"A", " ">>), Absent, Absent)>>,
              <<MkTx(Absent, Absent, Absent, Absent)>> }
    IN  profiles \X lists

\* Records in full, in every order, for a few profiles
RecordInputs ==
    LET profiles ==
            { MkProfile(a, ch, PyNum(1), Absent, NoTags) :
                a \in {A, PyStr(<<" ">>)},
                ch \in {BitcoinChain, OtherChain} }
        records ==
            { MkTx(frm, to, v, Absent) :
                frm \in {A, B}, to \in {A, B},
                v \in {Absent, NotANumber, D10000000} }
    IN  profiles \X SeqsUpTo(records, MaxTxs)

TimedTx(ts) == MkTx(B, A, D10001, ts)

\* Timestamps in every order, and some longer lists with unparsable ones
BurstInputs ==
    LET records == { TimedTx(ts) : ts \in {Absent, T0, T600, T601} }
        at(n) == TimedTx(PyStr(<<DigitChars[n + 1], "0", "0">>))
        far == TimedTx(PyStr(<<"1", "0", "0", "0", "0">>))
        bad == TimedTx(PyStr(<<>>))
        none == TimedTx(PyNone)
        lists ==
            { <<at(0), at(1), at(2), at(3), at(5)>>,
              <<at(0), at(1), at(2), at(3), at(5), far>>,
              <<far, at(5), bad, at(3), at(2), none, at(1), at(0)>>,
              <<at(9), at(1), bad, at(0), at(8), at(2), at(7)>>,
              <<at(0), bad, at(0), at(0), none, at(0)>>,
              <<TimedTx(PyStr(<<"-", "1", "0", "0">>)), at(5), at(0), at(0), at(0),
                TimedTx(PyStr(<<" ", "6", "_", "0", "\n">>))>> }
    IN  {MkProfile(A, BitcoinChain, PyNum(1), Absent, NoTags)}
            \X (SeqsUpTo(records, MaxBurstTxs) \cup lists)

\* Bitcoin values around the thresholds, in every order
DustInputs ==
    LET records ==
            { MkTx(B, A, v, Absent) : v \in {D10000, D10001, D9999999, D10000000} }
    IN  {MkProfile(A, BitcoinChain, PyNum(0), Absent, NoTags)}
            \X SeqsUpTo(records, MaxDustTxs)

FanIn(k) == [i \in 1..k |-> MkTx(Peer(i), A, D10001, Absent)]

FanOut(k) == [i \in 1..k |-> MkTx(A, Peer(i), D10001, Absent)]

\* Many peers on either side
PeerInputs ==
    { <<MkProfile(A, BitcoinChain, PyNum(bal), Absent, NoTags), FanIn(k) \o FanOut(m)>> :
        bal \in {0, 1}, k \in 0..MaxPeers, m \in 0..MaxPeers }

\* No earlier call of basic_risk_scoring
FirstCall ==
    /\ calls = 0
    /\ last_score = 0
    /\ last_codes = <<>>

\* No call of the Ethereum client is in progress
EthIdle ==
    /\ address = <<>>
    /\ limit = 0
    /\ eth_pc = "idle"
    /\ reply = PyNone
    /\ requests = <<>>
    /\ eth_txs = <<>>
    /\ eth_exc = ""

Init == \E in \in ProfileInputs \cup RecordInputs \cup BurstInputs \cup DustInputs
                    \cup PeerInputs : Entry(in[1], in[2]) /\ EthIdle /\ FirstCall

Spec == Init /\ [][Next]_vars

\* Profiles whose optional fields are absent, None or of the wrong type
OptionalInputs ==
    LET profiles ==
            { MkProfile(A, BitcoinChain, bal, cnt, tg) :
                bal \in {Absent, PyNone, NotANumber, PyNum(0), PyNum(1)},
                cnt \in {Absent, PyNone, NotANumber, PyNum(0), PyNum(30)},
                tg \in {Absent, PyNone, NoTags, ScamAlert, PyList(<<PyNone, PyStr(Mixer)>>)} }
        lists ==
            { <<>>,
              <<MkTx(B, A, D10000000, Absent)>>,
              <<MkTx(A, B, D10, Absent)>>,
              <<MkTx(B, A, D10, T0), MkTx(A, A, D10, T0)>> }
    IN  profiles \X lists

InitOptional == \E in \in OptionalInputs : Entry(in[1], in[2]) /\ EthIdle /\ FirstCall

\* basic_risk_scoring on profiles with absent or malformed optional fields
SpecOptional == InitOptional /\ [][Next]_vars

(***************************************************************************)
(* The same records in another order.  After a call has returned, the      *)
(* caller exchanges two neighbouring records of the list and scores the    *)
(* profile again; every permutation of a list is reached this way.         *)
(***************************************************************************)
MaxOrderTxs == 3

MaxOrderBurstTxs == 6

Codes(fs) == [i \in 1..Len(fs) |-> fs[i].code]

\* The list with the records at k and k + 1 exchanged
Swap(list, k) ==
    [i \in 1..Len(list) |->
        IF i = k THEN list[k + 1] ELSE IF i = k + 1 THEN list[k] ELSE list[i]]

\* Records that differ in direction, value and timestamp, on a Bitcoin and
\* on an Ethereum profile; and incoming records around the burst window
OrderInputs ==
    LET profiles == { MkProfile(A, ch, PyNum(1), Absent, NoTags) :
                        ch \in {BitcoinChain, EthChain} }
        records == { MkTx(B, A, D10000000, T0),
                     MkTx(A, B, D10, T601),
                     MkTx(A, A, NotANumber, Absent),
                     MkTx(B, A, Absent, T600),
                     MkTx(B, PyStr(<<" ", "A">>), D10000, PyNone) }
        timed == { TimedTx(ts) : ts \in {T0, T601, Absent} }
    IN  (profiles \X SeqsUpTo(records, MaxOrderTxs))
            \cup ({MkProfile(A, BitcoinChain, PyNum(1), Absent, NoTags)}
                    \X SeqsUpTo(timed, MaxOrderBurstTxs))

\* risk = basic_risk_scoring(profile, txs) on the reordered list
ScoreReordered ==
    /\ pc = "done"
    /\ \E k \in 1..(Len(txs) - 1) :
          /\ txs[k] # txs[k + 1]
          /\ txs' = Swap(txs, k)
    /\ calls' = 1
    /\ last_score' = score
    /\ last_codes' = Codes(flags)
    /\ pc' = "stats"
    /\ addr' = <<>>
    /\ chain' = <<>>
    /\ flags' = <<>>
    /\ total_weight' = 0
    /\ incoming' = 0
    /\ outgoing' = 0
    /\ unique_senders' = {}
    /\ unique_receivers' = {}
    /\ tx_count' = 0
    /\ small_incoming' = 0
    /\ big_incoming' = 0
    /\ timestamps' = <<>>
    /\ self_like' = 0
    /\ tags' = <<>>
    /\ score' = 0
    /\ UNCHANGED <<profile, ethVars>>

InitOrder == \E in \in OrderInputs : Entry(in[1], in[2]) /\ EthIdle /\ FirstCall

NextOrder ==
    \/ ActivityStats
    \/ FunnelRelay
    \/ Volume
    \/ Peers
    \/ ValueSignals
    \/ Burst
    \/ SelfShuffling
    \/ Tags
    \/ FinalScore
    \/ ScoreReordered

SpecOrder == InitOrder /\ [][NextOrder]_vars

(***************************************************************************)
(* EthereumClient.get_recent_transactions, src/cryptohound/chains/         *)
(* ethereum.py.  The provider's reply to each request is the environment's *)
(* choice: an HTTP failure, a JSON value that is no object, or an object   *)
(* with any of status, message and result.                                 *)
(***************************************************************************)
HexChars ==
    {"0", "1", "2", "3", "4", "5", "6", "7", "8", "9",
     "a", "b", "c", "d", "e", "f", "A", "B", "C", "D", "E", "F"}

\* ETH_ADDRESS_RE.match(addr): ^0x[a-fA-F0-9]{40}$, where $ also matches
\* before a newline that ends the string
is_valid_eth_address(a) ==
    LET body == IF a # <<>> /\ a[Len(a)] = "\n" THEN SubSeq(a, 1, Len(a) - 1) ELSE a
    IN  /\ Len(body) = 42
        /\ body[1] = "0"
        /\ body[2] = "x"
        /\ \A i \in 3..42 : body[i] \in HexChars

PyDict(d) == [t |-> "dict", d |-> d]

\* client.get failed or raise_for_status raised
HttpFailure == [t |-> "error"]

One == PyStr(<<"1">>)

Zero == PyStr(<<"0">>)

\* The records of result[:limit] in the common schema, for limit >= 0
Normalize(items, lim) ==
    [i \in 1..Min(lim, Len(items)) |->
        [hash |-> Get(items[i], "hash", EmptyStr),
         from |-> Get(items[i], "from", EmptyStr),
         to |-> Get(items[i], "to", EmptyStr),
         value |-> Get(items[i], "value", Zero),
         timeStamp |-> Get(items[i], "timeStamp", EmptyStr)]]

\* _request and the checks of _get_txlist on its answer: the exception
\* raised (exc) or the normalized list (txs)
GetTxlist(r, lim) ==
    LET status == Get(r.d, "status", PyNone)
        result == Get(r.d, "result", PyNone)
    IN  IF r.t = "error" THEN [exc |-> "HTTPError", txs |-> <<>>]
        ELSE IF r.t # "dict" THEN [exc |-> "RuntimeError", txs |-> <<>>]
        ELSE IF status # One THEN [exc |-> "RuntimeError", txs |-> <<>>]
        ELSE IF result.t # "list" THEN [exc |-> "RuntimeError", txs |-> <<>>]
        ELSE [exc |-> "", txs |-> Normalize(result.items, lim)]

\* _request and the checks of _get_tokentx on its answer
GetTokentx(r, lim) ==
    LET status == Get(r.d, "status", PyNone)
        result == Get(r.d, "result", PyNone)
    IN  IF r.t = "error" THEN [exc |-> "HTTPError", txs |-> <<>>]
        ELSE IF r.t # "dict" THEN [exc |-> "RuntimeError", txs |-> <<>>]
        ELSE IF status # One THEN [exc |-> "RuntimeError", txs |-> <<>>]
        ELSE IF result.t # "list" THEN [exc |-> "RuntimeError", txs |-> <<>>]
        ELSE [exc |-> "", txs |-> Normalize(result.items, lim)]

OK == PyStr(<<"O", "K">>)

NOTOK == PyStr(<<"N", "O", "T", "O", "K">>)

NoTransactionsFound ==
    PyStr(<<"N", "o", " ", "t", "r", "a", "n", "s", "a", "c", "t", "i", "o", "n", "s",
            " ", "f", "o", "u", "n", "d">>)

RateLimit == PyStr(<<"M", "a", "x", " ", "r", "a", "t", "e">>)

MaxResultLen == 2

MaxLimit == 2

\* Provider records: one with every field, one with only from and to
RawTxs ==
    { MkDict([hash |-> PyStr(<<"h">>), from |-> B, to |-> A, value |-> D10,
              timeStamp |-> T0]),
      MkDict([hash |-> Absent, from |-> A, to |-> B, value |-> Absent,
              timeStamp |-> Absent]) }

Replies ==
    {HttpFailure, PyList(<<>>)}
        \cup { PyDict(MkDict([status |-> st, message |-> m, result |-> res])) :
                 st \in {One, Zero, PyNum(1), Absent},
                 m \in {OK, NOTOK, NoTransactionsFound},
                 res \in {PyList(l) : l \in SeqsUpTo(RawTxs, MaxResultLen)}
                            \cup {NoTransactionsFound, RateLimit, Absent} }

ValidAddress == <<"0", "x">> \o [i \in 1..40 |-> IF i % 2 = 0 THEN "a" ELSE "F"]

Addresses ==
    { ValidAddress,
      ValidAddress \o <<"\n">>,
      <<"0", "X">> \o [i \in 1..40 |-> "a"],
      <<"0", "x">> \o [i \in 1..39 |-> "a"],
      <<"0", "x">> \o [i \in 1..39 |-> "a"] \o <<"g">>,
      <<>> }

scoringVars ==
    <<profile, txs, pc, addr, chain, flags, total_weight, incoming, outgoing,
      unique_senders, unique_receivers, tx_count, small_incoming, big_incoming,
      timestamps, self_like, tags, score>>

\* if not is_valid_eth_address(address): raise ValueError
EthValidate ==
    /\ eth_pc = "validate"
    /\ IF is_valid_eth_address(address)
       THEN eth_pc' = "txlist" /\ eth_exc' = eth_exc
       ELSE eth_pc' = "raised" /\ eth_exc' = "ValueError"
    /\ UNCHANGED <<address, limit, reply, requests, eth_txs, scoringVars, callerVars>>

\* normal_txs = self._get_txlist(address, limit); if normal_txs: return
EthTxlist ==
    /\ eth_pc = "txlist"
    /\ \E r \in Replies :
          LET got == GetTxlist(r, limit)
          IN  /\ reply' = r
              /\ requests' = Append(requests, "txlist")
              /\ IF got.exc # ""
                 THEN eth_pc' = "raised" /\ eth_exc' = got.exc /\ eth_txs' = eth_txs
                 ELSE IF got.txs # <<>>
                 THEN eth_pc' = "returned" /\ eth_exc' = eth_exc /\ eth_txs' = got.txs
                 ELSE eth_pc' = "tokentx" /\ eth_exc' = eth_exc /\ eth_txs' = eth_txs
    /\ UNCHANGED <<address, limit, scoringVars, callerVars>>

\* token_txs = self._get_tokentx(address, limit); return token_txs
EthTokentx ==
    /\ eth_pc = "tokentx"
    /\ \E r \in Replies :
          LET got == GetTokentx(r, limit)
          IN  /\ reply' = r
              /\ requests' = Append(requests, "tokentx")
              /\ IF got.exc # ""
                 THEN eth_pc' = "raised" /\ eth_exc' = got.exc /\ eth_txs' = eth_txs
                 ELSE eth_pc' = "returned" /\ eth_exc' = eth_exc /\ eth_txs' = got.txs
    /\ UNCHANGED <<address, limit, scoringVars, callerVars>>

\* No scoring call is in progress
ScoringIdle ==
    /\ profile = <<>>
    /\ txs = <<>>
    /\ pc = "idle"
    /\ addr = <<>>
    /\ chain = <<>>
    /\ flags = <<>>
    /\ total_weight = 0
    /\ incoming = 0
    /\ outgoing = 0
    /\ unique_senders = {}
    /\ unique_receivers = {}
    /\ tx_count = 0
    /\ small_incoming = 0
    /\ big_incoming = 0
    /\ timestamps = <<>>
    /\ self_like = 0
    /\ tags = <<>>
    /\ score = 0

InitEth ==
    /\ ScoringIdle
    /\ FirstCall
    /\ address \in Addresses
    /\ limit \in 0..MaxLimit
    /\ eth_pc = "validate"
    /\ reply = PyNone
    /\ requests = <<>>
    /\ eth_txs = <<>>
    /\ eth_exc = ""

NextEth ==
    \/ EthValidate
    \/ EthTxlist
    \/ EthTokentx

SpecEth == InitEth /\ [][NextEth]_vars

(***************************************************************************)
(* Properties                                                              *)
(***************************************************************************)
Stages ==
    <<"stats", "funnel", "volume", "peers", "value", "burst", "self", "tags",
      "final", "done">>

StageNo(p) ==
    IF p = "raised" THEN 0 ELSE CHOOSE i \in 1..Len(Stages) : Stages[i] = p

\* The section named has run
Past(stage) == StageNo(pc) > StageNo(stage)

HasFlag(code) == \E i \in 1..Len(flags) : flags[i].code = code

RECURSIVE SumWeights(_)
SumWeights(fs) == IF fs = <<>> THEN 0 ELSE Head(fs).weight + SumWeights(Tail(fs))

\* The weight each rule is specified to contribute
RuleWeight(code) ==
    CASE code = "INCOMING_ONLY" -> 25
      [] code = "OUTGOING_ONLY" -> 20
      [] code \in {"HIGH_VOLUME", "MANY_SENDERS", "MANY_RECIPIENTS", "DUSTING_PATTERN"} -> 15
      [] code \in {"ELEVATED_VOLUME", "MULTIPLE_SENDERS", "MULTIPLE_RECIPIENTS"} -> 8
      [] code = "LARGE_INCOMING" -> 20
      [] code \in {"BURST_ACTIVITY", "SELF_SHUFFLING"} -> 10
      [] code = "TAG_SCAM" -> 40
      [] code = "TAG_MIXER" -> 30
      [] OTHER -> -1

\* The place of each code in the fixed rule order; the two tiers of one
\* signal share a place
Rank(code) ==
    CASE code = "INCOMING_ONLY" -> 1
      [] code = "OUTGOING_ONLY" -> 2
      [] code \in {"HIGH_VOLUME", "ELEVATED_VOLUME"} -> 3
      [] code \in {"MANY_SENDERS", "MULTIPLE_SENDERS"} -> 4
      [] code \in {"MANY_RECIPIENTS", "MULTIPLE_RECIPIENTS"} -> 5
      [] code = "LARGE_INCOMING" -> 6
      [] code = "DUSTING_PATTERN" -> 7
      [] code = "BURST_ACTIVITY" -> 8
      [] code = "SELF_SHUFFLING" -> 9
      [] code = "TAG_SCAM" -> 10
      [] code = "TAG_MIXER" -> 11
      [] OTHER -> 0

\* C1: whenever basic_risk_scoring returns, the score is an integer with
\* 0 <= score <= 100.
ScoreInRange == pc = "done" => (score \in Int /\ 0 <= score /\ score <= 100)

\* C1 witness: a call returned whose raw weight sum is above 100.
ScoreInRangeWitness == pc = "done" /\ total_weight > 100 /\ score = 100

\* C2: on return the score is min(100, sum of the weights of the returned
\* flags); the final step changes only the score: the flag list is the list
\* that was emitted, every flag with its rule's unclamped weight.
ClampOnlyScore ==
    [][pc' = "done" =>
          /\ flags' = flags
          /\ score' = (IF SumWeights(flags') > 100 THEN 100 ELSE SumWeights(flags'))
          /\ \A i \in 1..Len(flags') : flags'[i].weight = RuleWeight(flags'[i].code)
      ]_vars

\* C2 witness: a returned list of at least four flags whose weights sum to
\* more than 100, with score 100.
ClampOnlyScoreWitness ==
    pc = "done" /\ Len(flags) >= 4 /\ SumWeights(flags) > 100 /\ score = 100

IsPresent(p, name, value) == name \in DOMAIN p /\ p[name] = value

EmptyAndZero ==
    /\ pc = "done"
    /\ txs = <<>>
    /\ IsPresent(profile, "balance", PyNum(0))
    /\ IsPresent(profile, "tx_count", PyNum(0))

\* C3 as stated: an empty transaction list with balance 0 and tx_count 0
\* gives score 0 and no flags, whatever the address, chain and tags.
EmptyZeroScoresZero == EmptyAndZero => (score = 0 /\ flags = <<>>)

\* No tag of the profile contains "scam", "mixer" or "tornado", in any case
NoRiskTag ==
    \A i \in 1..Len(profile["tags"].items) :
        LET tag == Lower(profile["tags"].items[i].s)
        IN  ~Contains(Scam, tag) /\ ~Contains(Mixer, tag) /\ ~Contains(Tornado, tag)

\* C3 amended: an empty transaction list with balance 0 and tx_count 0 gives
\* score 0 and no flags when no tag of the profile contains scam, mixer or
\* tornado.
EmptyZeroUntaggedScoresZero ==
    (EmptyAndZero /\ NoRiskTag) => (score = 0 /\ flags = <<>>)

\* C3 witness: such a call returned, for a whitespace-only address and a
\* profile that carries a tag.
EmptyZeroUntaggedWitness ==
    /\ EmptyAndZero
    /\ NoRiskTag
    /\ profile["tags"].items # <<>>
    /\ profile["address"] = PyStr(<<" ">>)
    /\ score = 0

TsOf(tx) == PyInt(Get(tx, "timeStamp", PyNone))

\* The records with an integer-parsable timeStamp
Timed == {i \in DOMAIN txs : TsOf(txs[i]).ok}

TsAt(i) == ToInt(TsOf(txs[i]).val)

FiveWithin600 ==
    \E S \in SUBSET Timed :
        /\ Cardinality(S) = 5
        /\ \A i, j \in S : TsAt(i) - TsAt(j) <= 600

\* C4: BURST_ACTIVITY is emitted iff some 5 records with integer-parsable
\* timeStamp lie within a span of at most 600 seconds, whatever the order
\* of the list; other records are ignored.
BurstIffFiveWithin600 == Past("burst") => (HasFlag("BURST_ACTIVITY") <=> FiveWithin600)

\* C4 witness: the flag fired on a list that is not in time order and holds
\* a record without a parsable timeStamp.
BurstWitness ==
    /\ pc = "done"
    /\ HasFlag("BURST_ACTIVITY")
    /\ Timed # DOMAIN txs
    /\ \E i, j \in Timed : i < j /\ TsAt(i) > TsAt(j)

\* C5: the flag codes appear in the fixed rule order, no code twice and at
\* most one tier of each signal.
FlagsInRuleOrder ==
    /\ \A i \in 1..Len(flags) : Rank(flags[i].code) > 0
    /\ \A i, j \in 1..Len(flags) : i < j => Rank(flags[i].code) < Rank(flags[j].code)

\* C5 witness: a list with more than one window of 5 within 600 seconds
\* returned a single BURST_ACTIVITY, after a flag of an earlier rule.
FlagsInRuleOrderWitness ==
    /\ pc = "done"
    /\ Len(timestamps) >= 6
    /\ timestamps[6] - timestamps[1] <= 600
    /\ Len(flags) >= 2
    /\ flags[Len(flags)].code = "BURST_ACTIVITY"

ProfileTxCount ==
    IF "tx_count" \in DOMAIN profile THEN profile["tx_count"].n ELSE Len(txs)

\* C6: the volume rule reads the profile's tx_count, the list's length only
\* when the profile has none: >= 100 gives only HIGH_VOLUME (15), 30..99
\* only ELEVATED_VOLUME (8), below 30 neither; tx_count 150 and no other
\* flag gives score 15.
VolumeUsesProfileCount ==
    Past("volume") =>
        /\ ProfileTxCount >= 100 =>
              /\ \E i \in 1..Len(flags) : flags[i] = RiskFlag("HIGH_VOLUME", 15)
              /\ ~HasFlag("ELEVATED_VOLUME")
        /\ (ProfileTxCount >= 30 /\ ProfileTxCount < 100) =>
              /\ \E i \in 1..Len(flags) : flags[i] = RiskFlag("ELEVATED_VOLUME", 8)
              /\ ~HasFlag("HIGH_VOLUME")
        /\ ProfileTxCount < 30 => (~HasFlag("HIGH_VOLUME") /\ ~HasFlag("ELEVATED_VOLUME"))
        /\ (pc = "done" /\ ProfileTxCount = 150 /\ Len(flags) = 1) => score = 15

\* C6 witness: tx_count 150 on a profile scored against a shorter list,
\* nothing else triggered, returned score 15.
VolumeWitness ==
    /\ pc = "done"
    /\ IsPresent(profile, "tx_count", PyNum(150))
    /\ Len(txs) < 30
    /\ flags = <<RiskFlag("HIGH_VOLUME", 15)>>
    /\ score = 15

\* C7: a record whose value field is missing is counted in neither
\* big_incoming nor small_incoming.
MissingValueSkipped ==
    Past("value") =>
        big_incoming + small_incoming
            <= Cardinality({i \in DOMAIN txs : "value" \in DOMAIN txs[i]})

\* The address has a value and the record's to / from is that address
ToMatches(i) == addr # <<>> /\ TxTo(txs[i]) = addr

FromMatches(i) == addr # <<>> /\ TxFrom(txs[i]) = addr

\* C8: a record whose value is a non-numeric string does not make the
\* function raise and is counted in neither value bucket; it is counted in
\* the incoming and outgoing totals and its peer is in the unique peer sets
\* like any other record.
NonNumericValueTolerated ==
    /\ pc # "raised"
    /\ Past("value") =>
          big_incoming + small_incoming
              <= Cardinality({i \in DOMAIN txs : Get(txs[i], "value", Absent) # NotANumber})
    /\ Past("stats") =>
          /\ incoming = Cardinality({i \in DOMAIN txs : ToMatches(i)})
          /\ outgoing = Cardinality({i \in DOMAIN txs : FromMatches(i)})
          /\ unique_senders =
                {TxFrom(txs[i]) : i \in {k \in DOMAIN txs : ToMatches(k)}} \ {<<>>}
          /\ unique_receivers =
                {TxTo(txs[i]) : i \in {k \in DOMAIN txs : FromMatches(k)}} \ {<<>>}

\* C8 witness: a list whose records all carry a non-numeric value returned,
\* with an incoming and an outgoing record counted and both buckets empty.
NonNumericValueWitness ==
    /\ pc = "done"
    /\ chain = Bitcoin
    /\ txs # <<>>
    /\ \A i \in DOMAIN txs : Get(txs[i], "value", Absent) = NotANumber
    /\ incoming >= 1
    /\ outgoing >= 1
    /\ <<"B">> \in unique_senders
    /\ big_incoming + small_incoming = 0

\* The integer value of a record that carries one
HasIntValue(i) == "value" \in DOMAIN txs[i] /\ PyInt(txs[i]["value"]).ok

ValueAt(i) == PyInt(RawValue(txs[i])).val

\* C9 as stated: on bitcoin an incoming record is big iff its value is
\* >= 10,000,000 and dust iff its value is <= 10; DUSTING_PATTERN fires iff
\* at least 5 incoming records have value <= 10.
BitcoinDustAtTen ==
    (Past("value") /\ chain = Bitcoin) =>
        LET inc == {i \in DOMAIN txs : TxTo(txs[i]) = addr /\ HasIntValue(i)}
            dust == {i \in inc : IntLE(ValueAt(i), IntOf(10))}
            big == {i \in inc : IntGE(ValueAt(i), IntOf(10000000))}
        IN  /\ small_incoming = Cardinality(dust)
            /\ big_incoming = Cardinality(big)
            /\ HasFlag("DUSTING_PATTERN") <=> Cardinality(dust) >= 5

\* C9 amended: on bitcoin a record the value loop takes (to == address, or
\* any record when the address is empty) whose value is an integer (a
\* missing value reads as 0) is big iff the value is >= 10,000,000 and
\* dust iff it is <= 10,000 satoshis; DUSTING_PATTERN fires iff at least 5
\* such records have value <= 10,000.
BitcoinDustAtTenThousand ==
    (Past("value") /\ chain = Bitcoin) =>
        LET taken == {i \in DOMAIN txs :
                         /\ (addr = <<>> \/ TxTo(txs[i]) = addr)
                         /\ ("value" \in DOMAIN txs[i] => PyInt(txs[i]["value"]).ok)}
            dust == {i \in taken : IntLE(ValueAt(i), IntOf(10000))}
            big == {i \in taken : IntGE(ValueAt(i), IntOf(10000000))}
        IN  /\ small_incoming = Cardinality(dust)
            /\ big_incoming = Cardinality(big)
            /\ HasFlag("DUSTING_PATTERN") <=> Cardinality(dust) >= 5

\* C9 witness: DUSTING_PATTERN returned for incoming bitcoin records of
\* which exactly five are at most 10,000 satoshis, one of them exactly
\* 10,000, and fewer than five are at most 10.
BitcoinDustWitness ==
    /\ pc = "done"
    /\ chain = Bitcoin
    /\ addr # <<>>
    /\ HasFlag("DUSTING_PATTERN")
    /\ small_incoming = 5
    /\ \E i \in DOMAIN txs : TxTo(txs[i]) = addr /\ Get(txs[i], "value", Absent) = D10000
    /\ Cardinality({i \in DOMAIN txs : HasIntValue(i) /\ IntLE(ValueAt(i), IntOf(10))}) < 5

\* C10: for every profile, an empty or whitespace-only address included,
\* big_incoming and small_incoming count only records whose to equals the
\* profile address.
BucketsCountOnlyIncoming ==
    Past("value") =>
        big_incoming + small_incoming
            <= Cardinality({i \in DOMAIN txs : TxTo(txs[i]) = addr})

\* C11: basic_risk_scoring never raises because of an optional profile
\* field: an absent or malformed balance, tags or tx_count is replaced by a
\* default and a RiskScore is returned.
OptionalFieldsNeverRaise == pc # "raised"

\* The chain, lower-cased and trimmed, is none of the recognised names
UnrecognizedChain ==
    LET c == Strip(Lower(profile["chain"].s))
    IN  /\ c # <<"b", "i", "t", "c", "o", "i", "n">>
        /\ c # <<"e", "t", "h", "e", "r", "e", "u", "m">>
        /\ c # <<"e", "t", "h">>
        /\ c # <<"b", "s", "c">>
        /\ c # <<"b", "n", "b">>
        /\ c # <<"b", "i", "n", "a", "n", "c", "e", " ", "s", "m", "a", "r", "t", " ",
                 "c", "h", "a", "i", "n">>

SomeTagHas(word) ==
    \E i \in 1..Len(profile["tags"].items) :
        Contains(word, Lower(profile["tags"].items[i].s))

\* When each rule other than the two value rules fires, from the profile
\* and the records alone: nothing here reads the chain.
RuleFires(code) ==
    LET inc == Cardinality({i \in DOMAIN txs : ToMatches(i)})
        out == Cardinality({i \in DOMAIN txs : FromMatches(i)})
        senders ==
            Cardinality({TxFrom(txs[i]) : i \in {k \in DOMAIN txs : ToMatches(k)}} \ {<<>>})
        receivers ==
            Cardinality({TxTo(txs[i]) : i \in {k \in DOMAIN txs : FromMatches(k)}} \ {<<>>})
    IN  CASE code = "INCOMING_ONLY" -> inc > 0 /\ out = 0 /\ profile["balance"].n > 0
          [] code = "OUTGOING_ONLY" -> out > 0 /\ inc = 0
          [] code = "HIGH_VOLUME" -> ProfileTxCount >= 100
          [] code = "ELEVATED_VOLUME" -> ProfileTxCount >= 30 /\ ProfileTxCount < 100
          [] code = "MANY_SENDERS" -> senders >= 20
          [] code = "MULTIPLE_SENDERS" -> senders >= 10 /\ senders < 20
          [] code = "MANY_RECIPIENTS" -> receivers >= 20
          [] code = "MULTIPLE_RECIPIENTS" -> receivers >= 10 /\ receivers < 20
          [] code = "BURST_ACTIVITY" -> FiveWithin600
          [] code = "SELF_SHUFFLING" ->
                \E i \in DOMAIN txs : ToMatches(i) /\ FromMatches(i)
          [] code = "TAG_SCAM" -> SomeTagHas(Scam)
          [] code = "TAG_MIXER" -> SomeTagHas(Mixer) \/ SomeTagHas(Tornado)

OtherCodes ==
    {"INCOMING_ONLY", "OUTGOING_ONLY", "HIGH_VOLUME", "ELEVATED_VOLUME",
     "MANY_SENDERS", "MULTIPLE_SENDERS", "MANY_RECIPIENTS", "MULTIPLE_RECIPIENTS",
     "BURST_ACTIVITY", "SELF_SHUFFLING", "TAG_SCAM", "TAG_MIXER"}

\* C12: on an unrecognised chain both value buckets stay zero and neither
\* LARGE_INCOMING nor DUSTING_PATTERN is emitted; every other rule fires on
\* a condition that does not read the chain, so as on a recognised one.
UnrecognizedChainNoValueFlags ==
    /\ (Past("value") /\ UnrecognizedChain) =>
          /\ big_incoming = 0
          /\ small_incoming = 0
          /\ ~HasFlag("LARGE_INCOMING")
          /\ ~HasFlag("DUSTING_PATTERN")
    /\ pc = "done" => \A code \in OtherCodes : HasFlag(code) <=> RuleFires(code)

\* C12 witness: an unrecognised chain, an incoming record of 10,000,000
\* units that the value loop takes, and INCOMING_ONLY returned without
\* LARGE_INCOMING.
UnrecognizedChainWitness ==
    /\ pc = "done"
    /\ UnrecognizedChain
    /\ \E i \in DOMAIN txs : ToMatches(i) /\ Get(txs[i], "value", Absent) = D10000000
    /\ HasFlag("INCOMING_ONLY")
    /\ ~HasFlag("LARGE_INCOMING")

\* The answer says the address has no normal transactions: success with
\* an empty list, or the provider's status "0", "No transactions found"
\* with a string result.
FoundNoTransactions(r) ==
    /\ r.t = "dict"
    /\ \/ /\ Get(r.d, "status", PyNone) = One
          /\ Get(r.d, "result", PyNone) = PyList(<<>>)
       \/ /\ Get(r.d, "status", PyNone) = Zero
          /\ Get(r.d, "message", PyNone) = NoTransactionsFound
          /\ Get(r.d, "result", PyNone).t = "str"

\* C13: when the txlist lookup finds no transactions for a valid address
\* the call goes on to the tokentx lookup instead of failing.
NoTransactionsFallsBack ==
    (requests # <<>> /\ requests[1] = "txlist" /\ FoundNoTransactions(reply)
        /\ Len(requests) = 1)
        => (eth_pc = "tokentx")

\* C14: INCOMING_ONLY and OUTGOING_ONLY exclude each other, SELF_SHUFFLING
\* excludes both, INCOMING_ONLY excludes the recipient fan-out flags and
\* OUTGOING_ONLY the sender fan-in flags.
FunnelFlagsExclusive ==
    /\ ~(HasFlag("INCOMING_ONLY") /\ HasFlag("OUTGOING_ONLY"))
    /\ HasFlag("SELF_SHUFFLING")
          => ~HasFlag("INCOMING_ONLY") /\ ~HasFlag("OUTGOING_ONLY")
    /\ HasFlag("INCOMING_ONLY")
          => ~HasFlag("MANY_RECIPIENTS") /\ ~HasFlag("MULTIPLE_RECIPIENTS")
    /\ HasFlag("OUTGOING_ONLY")
          => ~HasFlag("MANY_SENDERS") /\ ~HasFlag("MULTIPLE_SENDERS")

\* A result with SELF_SHUFFLING whose only transfers are self-transfers
FunnelFlagsExclusiveWitness ==
    /\ pc = "done"
    /\ HasFlag("SELF_SHUFFLING")
    /\ self_like = Len(txs)
    /\ incoming = outgoing
    /\ incoming > 0
    /\ Get(profile, "balance", PyNum(0)) = PyNum(1)

\* C15: for a fixed profile the score and the flag codes, in order, are the
\* same for the list and for the list with two neighbouring records
\* exchanged, hence for every permutation of the list.
OrderIndependent ==
    (pc = "done" /\ calls > 0) => (score = last_score /\ Codes(flags) = last_codes)

\* A list scored again with the same BURST_ACTIVITY result although the
\* window scan finds no burst in its timestamps as they stand in the list
OrderIndependentWitness ==
    /\ pc = "done"
    /\ calls > 0
    /\ HasFlag("BURST_ACTIVITY")
    /\ last_codes = Codes(flags)
    /\ BurstScan(CollectTimestamps(txs), 1, 1) = <<>>

====
